---- MODULE Spec2Model ----
(***************************************************************************)
(* Model of the event-driven backtesting engine:                           *)
(*   backtest.py   Backtest._run_backtest (dispatch loop)                  *)
(*   data.py       HistoricMinDataHandler (bar stream)                     *)
(*   portfolio.py  Portfolio (ledger)                                      *)
(*   event.py      MarketEvent, SignalEvent, OrderEvent, FillEvent         *)
(*   performance.py create_sharpe_ratio, create_drawdowns                  *)
(* Strategy.calc_signals and ExecutionHandler.execute_order are the two    *)
(* pluggable collaborators; they are modelled at their interface.          *)
(* Specifications: Spec (the run on the backtest venue), SpecFair (the run *)
(* under weak fairness), SpecWatched (the run with the strategy watched),  *)
(* SpecOpen (an external venue as sink), SpecSimulate (the run and its     *)
(* report), SpecScenario (the end-to-end scenario), SpecStream,            *)
(* SpecLedger, SpecEvents, SpecLoad, SpecAnalytics and SpecDrawdowns (the  *)
(* data handler, the ledger, FillEvent, the csv loader and performance.py  *)
(* called directly).                                                       *)
(* Money is counted in thousandths so that the 0.003 commission is exact.  *)
(***************************************************************************)
EXTENDS Integers, Sequences, FiniteSets, TLC

\* ---------------------------------------------------------------- bounds
MaxBars == 2
MaxSignals == 2
MaxTotalSignals == 3
MaxCalls == 4
MaxN == 3
MaxFills == 2

\* ------------------------------------------------------------- constants
\* the symbols a run may be given, in the order of the list
Listing == <<"A", "B">>
start_date == 0
initial_cap == 10000
CommissionPerMille == 3
Prices == {1000, 2000}

EventTypes == {"MARKET", "SIGNAL", "ORDER", "FILL"}
SignalTypes == {"LONG", "SHORT", "EXIT"}

VARIABLES
    pc,                  \* position of _run_backtest
    i,                   \* loop counter of _run_backtest
    events,              \* the shared queue.Queue
    symbol_data,         \* per symbol: the bars its iterator has yet to yield
    latest_symbol_data,  \* per symbol: the bars made visible so far
    continue_backtest,
    heap,                \* the dict objects of the ledger, by reference
    all_positions,       \* list of references into heap
    all_holdings,        \* list of references into heap
    current_positions,   \* reference into heap
    current_holdings,    \* reference into heap
    signals, orders, fills,  \* Backtest counters
    ret,                 \* the outcome of the last call a client made on
                         \* the data handler or on performance.py
    trace                \* history: per event, in the order of the puts,
                         \* its type, the id of the event whose handler put
                         \* it (0: the data handler), the iteration of the
                         \* outer loop it was put in, and its rank among
                         \* the events popped (0 while it is queued)

vars == <<pc, i, events, symbol_data, latest_symbol_data, continue_backtest,
          heap, all_positions, all_holdings, current_positions,
          current_holdings, signals, orders, fills, ret, trace>>

\* the symbol_list the run was constructed with: the symbols that have a
\* csv file, in the order of the list
Listed(s) == s \in DOMAIN symbol_data
symbol_list == SelectSeq(Listing, Listed)
Symbols == DOMAIN symbol_data

dataVars == <<symbol_data, latest_symbol_data, continue_backtest>>
ledgerVars == <<heap, all_positions, all_holdings, current_positions,
                current_holdings>>
counterVars == <<signals, orders, fills>>

\* ---------------------------------------------------------------- events
\* Every event is a record of one shape; the fields a class does not have
\* are blank.  id is history: the rank of the put that enqueued the event.
Blank ==
    [type |-> "None", symbol |-> "", signal_type |-> "", cur_price |-> 0,
     quantity |-> 0, direction |-> "", est_fill_cost |-> 0, exchange |-> "",
     fill_cost |-> 0, commission |-> 0, id |-> 0]

NoneEvent == Blank

MarketEvent == [Blank EXCEPT !.type = "MARKET"]

SignalEvent(symbol, signal_type, cur_price) ==
    [Blank EXCEPT !.type = "SIGNAL", !.symbol = symbol,
                  !.signal_type = signal_type, !.cur_price = cur_price]

OrderEvent(symbol, quantity, direction, est_fill_cost) ==
    [Blank EXCEPT !.type = "ORDER", !.symbol = symbol, !.quantity = quantity,
                  !.direction = direction, !.est_fill_cost = est_fill_cost]

\* (mutation of calc_commission: the rate is charged on the fill cost on
\* every venue)
calc_commission_on_fill_cost(exchange, direction, fill_cost, est_fill_cost) ==
    LET basis == fill_cost
    IN  IF direction = "SELL" THEN (CommissionPerMille * basis) \div 1000
        ELSE 0

\* (mutation of calc_commission: the rate is charged on the signed amount, a
\* SELL is credited)
calc_commission_signed(exchange, direction, fill_cost, est_fill_cost) ==
    LET basis == IF exchange = "BT" THEN est_fill_cost ELSE fill_cost
    IN  IF direction = "SELL" THEN 0 - (CommissionPerMille * basis) \div 1000
        ELSE 0

\* event.py calc_commission, mkt = "Stocks"
calc_commission(exchange, direction, fill_cost, est_fill_cost) ==
    LET basis == IF exchange = "BT" THEN est_fill_cost ELSE fill_cost
    IN  IF direction = "SELL" THEN (CommissionPerMille * basis) \div 1000
        ELSE 0

\* commission = -1 stands for the default argument None
FillEvent(symbol, exchange, quantity, direction, fill_cost, est_fill_cost, commission) ==
    [Blank EXCEPT !.type = "FILL", !.symbol = symbol, !.exchange = exchange,
                  !.quantity = quantity, !.direction = direction,
                  !.fill_cost = fill_cost, !.est_fill_cost = est_fill_cost,
                  !.commission =
                      IF commission = -1
                      THEN calc_commission(exchange, direction, fill_cost,
                                           est_fill_cost)
                      ELSE commission]

\* ----------------------------------------------------------------- queue
\* (mutation of PutAll: a queue.LifoQueue, each put goes to the front)
RECURSIVE PutAllLifo(_, _, _)
PutAllLifo(q, es, n) ==
    IF es = <<>> THEN q
    ELSE PutAllLifo(<<[Head(es) EXCEPT !.id = n + 1]>> \o q, Tail(es), n + 1)

\* queue.Queue.put of a list of events, in order, after n earlier puts
RECURSIVE PutAll(_, _, _)
PutAll(q, es, n) ==
    IF es = <<>> THEN q
    ELSE PutAll(Append(q, [Head(es) EXCEPT !.id = n + 1]), Tail(es), n + 1)

\* the history of these puts, made by the handler of event `cause` in
\* iteration `bar`
Traced(es, cause, bar) ==
    [k \in DOMAIN es |->
        [type |-> es[k].type, cause |-> cause, bar |-> bar, pos |-> 0]]

\* queue.Queue.get(False): queue.Empty is raised on an empty queue
Empty(q) == q = <<>>
Front(q) == Head(q)
Rest(q) == Tail(q)

\* ------------------------------------------------------------ bar stream
\* A bar is the (index, row) pair of iterrows(); only close is read.
Bar(t, c) == [datetime |-> t, close |-> c]

\* data.py get_latest_bar_datetime / get_latest_bar_value: bars_list[-1]
\* raises IndexError on an empty list.
HasBar(s) == latest_symbol_data[s] # <<>>
LatestBar(s) == latest_symbol_data[s][Len(latest_symbol_data[s])]
get_latest_bar_datetime(s) == LatestBar(s).datetime
get_latest_bar_value(s) == LatestBar(s).close

\* The outcome of a call: what it raised ("" when it returned) and what it
\* returned, with the call's name and arguments (symbol: the symbol, or the
\* periods of create_sharpe_ratio; N: the number of bars asked for, the
\* length of the series passed, or the commission passed to FillEvent).
Outcome(op, symbol, N, raised, value) ==
    [op |-> op, symbol |-> symbol, N |-> N, raised |-> raised,
     value |-> value]

NoCall == Outcome("", "", 0, "", <<>>)

\* bars_list[start:] of Python: a negative start counts from the end, and
\* either is clamped to the list
SliceFrom(bars_list, start) ==
    LET len == Len(bars_list)
        lo == IF start < 0
              THEN (IF start + len < 0 THEN 0 ELSE start + len)
              ELSE (IF start > len THEN len ELSE start)
    IN  SubSeq(bars_list, lo + 1, len)

\* (mutation of get_latest_bar: an empty list is reported as the unknown
\* symbol is)
get_latest_bar_one_error(symbol) ==
    IF symbol \notin DOMAIN latest_symbol_data \/ ~HasBar(symbol)
    THEN Outcome("get_latest_bar", symbol, 1, "KeyError", <<>>)
    ELSE Outcome("get_latest_bar", symbol, 1, "", LatestBar(symbol))

\* data.py get_latest_bar: the KeyError of the dict lookup is printed and
\* raised again; bars_list[-1] raises IndexError on an empty list.
get_latest_bar(symbol) ==
    IF symbol \notin DOMAIN latest_symbol_data
    THEN Outcome("get_latest_bar", symbol, 1, "KeyError", <<>>)
    ELSE IF ~HasBar(symbol)
    THEN Outcome("get_latest_bar", symbol, 1, "IndexError", <<>>)
    ELSE Outcome("get_latest_bar", symbol, 1, "", LatestBar(symbol))

\* data.py get_latest_bar_datetime as a client calls it
call_get_latest_bar_datetime(symbol) ==
    IF symbol \notin DOMAIN latest_symbol_data
    THEN Outcome("get_latest_bar_datetime", symbol, 1, "KeyError", <<>>)
    ELSE IF ~HasBar(symbol)
    THEN Outcome("get_latest_bar_datetime", symbol, 1, "IndexError", <<>>)
    ELSE Outcome("get_latest_bar_datetime", symbol, 1, "",
                 get_latest_bar_datetime(symbol))

\* data.py get_latest_n_bars: bars_list[-N:]
get_latest_n_bars(symbol, N) ==
    IF symbol \notin DOMAIN latest_symbol_data
    THEN Outcome("get_latest_n_bars", symbol, N, "KeyError", <<>>)
    ELSE Outcome("get_latest_n_bars", symbol, N, "",
                 SliceFrom(latest_symbol_data[symbol], 0 - N))

\* data.py get_latest_n_bars_value, val_type = 'close'
get_latest_n_bars_value(symbol, N) ==
    LET bars_list == get_latest_n_bars(symbol, N)
    IN  IF bars_list.raised # ""
        THEN Outcome("get_latest_n_bars_value", symbol, N,
                     bars_list.raised, <<>>)
        ELSE Outcome("get_latest_n_bars_value", symbol, N, "",
                     [k \in DOMAIN bars_list.value |->
                         bars_list.value[k].close])

\* data.py update_bars: one next() per symbol, StopIteration clears the
\* flag, and a MarketEvent is put in every case.
update_bars_put == PutAll(events, <<MarketEvent>>, Len(trace))

\* (mutation of update_bars: an exhausted symbol is padded with its last
\* bar)
update_bars_padded ==
    /\ symbol_data' = [s \in Symbols |->
           IF symbol_data[s] = <<>> THEN <<>> ELSE Tail(symbol_data[s])]
    /\ latest_symbol_data' = [s \in Symbols |->
           IF symbol_data[s] = <<>>
           THEN (IF HasBar(s)
                 THEN Append(latest_symbol_data[s], LatestBar(s))
                 ELSE latest_symbol_data[s])
           ELSE Append(latest_symbol_data[s], Head(symbol_data[s]))]
    /\ continue_backtest' =
           IF \E s \in Symbols : symbol_data[s] = <<>> THEN FALSE
           ELSE continue_backtest
    /\ events' = update_bars_put
    /\ trace' = trace \o Traced(<<MarketEvent>>, 0, i + 1)

\* (mutation of update_bars: the bar after the next one is made visible
\* with it)
update_bars_ahead ==
    /\ symbol_data' = [s \in Symbols |->
           IF symbol_data[s] = <<>> THEN <<>> ELSE Tail(symbol_data[s])]
    /\ latest_symbol_data' = [s \in Symbols |->
           IF symbol_data[s] = <<>> THEN latest_symbol_data[s]
           ELSE latest_symbol_data[s]
                    \o (IF Len(symbol_data[s]) >= 2
                        THEN SubSeq(symbol_data[s], 1, 2)
                        ELSE symbol_data[s])]
    /\ continue_backtest' =
           IF \E s \in Symbols : symbol_data[s] = <<>> THEN FALSE
           ELSE continue_backtest
    /\ events' = update_bars_put
    /\ trace' = trace \o Traced(<<MarketEvent>>, 0, i + 1)

update_bars ==
    /\ symbol_data' = [s \in Symbols |->
           IF symbol_data[s] = <<>> THEN <<>> ELSE Tail(symbol_data[s])]
    /\ latest_symbol_data' = [s \in Symbols |->
           IF symbol_data[s] = <<>> THEN latest_symbol_data[s]
           ELSE Append(latest_symbol_data[s], Head(symbol_data[s]))]
    /\ continue_backtest' =
           IF \E s \in Symbols : symbol_data[s] = <<>> THEN FALSE
           ELSE continue_backtest
    /\ events' = update_bars_put
    /\ trace' = trace \o Traced(<<MarketEvent>>, 0, i + 1)

\* ---------------------------------------------------------------- ledger
PosKeys == Symbols \cup {"datetime"}
SeedHoldKeys == Symbols \cup {"cash", "commission", "total_value"}
HoldKeys == SeedHoldKeys \cup {"datetime"}

construct_all_positions ==
    [k \in PosKeys |-> IF k = "datetime" THEN start_date ELSE 0]

construct_current_positions == [k \in Symbols |-> 0]

construct_all_holdings ==
    [k \in SeedHoldKeys |->
        IF k \in {"cash", "total_value"} THEN initial_cap ELSE 0]

construct_current_holdings ==
    [k \in SeedHoldKeys |->
        IF k \in {"cash", "total_value"} THEN initial_cap ELSE 0]

\* sum of d[s] over the symbols of S
RECURSIVE SumOver(_, _)
SumOver(d, S) ==
    IF S = {} THEN 0
    ELSE LET s == CHOOSE x \in S : TRUE IN d[s] + SumOver(d, S \ {s})

\* portfolio.py update_timeindex: the two dicts it builds ...
pos_dict ==
    [k \in PosKeys |->
        IF k = "datetime" THEN get_latest_bar_datetime(symbol_list[1])
        ELSE heap[current_positions][k]]

\* (mutation of market_value: the book value of the holding, not its mark)
market_value_book(s) == heap[current_holdings][s]

market_value(s) == heap[current_positions][s] * get_latest_bar_value(s)

hold_dict ==
    [k \in HoldKeys |->
        CASE k = "datetime" -> get_latest_bar_datetime(symbol_list[1])
          [] k = "cash" -> heap[current_holdings]["cash"]
          [] k = "commission" -> heap[current_holdings]["commission"]
          [] k = "total_value" ->
                 heap[current_holdings]["cash"]
                 + SumOver([s \in Symbols |-> market_value(s)], Symbols)
          [] OTHER -> market_value(k)]

\* (mutation of update_timeindex: the holdings row is not appended)
update_timeindex_positions_only ==
    /\ heap' = heap \o <<pos_dict, hold_dict>>
    /\ all_positions' = Append(all_positions, Len(heap) + 1)
    /\ UNCHANGED <<all_holdings, current_positions, current_holdings>>

\* (mutation of update_timeindex: the live dicts are refreshed and appended
\* themselves, not copies of them)
update_timeindex_aliased ==
    /\ heap' = [heap EXCEPT
                   ![current_holdings] =
                       [k \in SeedHoldKeys |-> hold_dict[k]]]
    /\ all_positions' = Append(all_positions, current_positions)
    /\ all_holdings' = Append(all_holdings, current_holdings)
    /\ UNCHANGED <<current_positions, current_holdings>>

\* ... and the two appends; each dict is a new object.
update_timeindex ==
    /\ heap' = heap \o <<pos_dict, hold_dict>>
    /\ all_positions' = Append(all_positions, Len(heap) + 1)
    /\ all_holdings' = Append(all_holdings, Len(heap) + 2)
    /\ UNCHANGED <<current_positions, current_holdings>>

\* portfolio.py update_positions_from_fill / update_holdings_from_fill:
\* any direction other than BUY and SELL prints and goes on with 0.
fill_dir(fill) ==
    IF fill.direction = "BUY" THEN 1
    ELSE IF fill.direction = "SELL" THEN -1
    ELSE 0

\* (mutation of update_positions_from_fill: the first symbol of the list is
\* updated, whatever the fill's symbol)
update_positions_first_symbol(h, fill) ==
    [h EXCEPT ![current_positions] =
        [@ EXCEPT ![symbol_list[1]] = @ + fill_dir(fill) * fill.quantity]]

\* (mutation of update_positions_from_fill: the quantity is added whatever
\* the direction of the fill)
update_positions_unsigned(h, fill) ==
    [h EXCEPT ![current_positions] =
        [@ EXCEPT ![fill.symbol] = @ + fill.quantity]]

update_positions_from_fill(h, fill) ==
    [h EXCEPT ![current_positions] =
        [@ EXCEPT ![fill.symbol] = @ + fill_dir(fill) * fill.quantity]]

\* (mutation of update_holdings_from_fill: the commission is recorded but
\* not taken from cash)
update_holdings_commission_free(h, fill) ==
    LET cost == fill_dir(fill) * get_latest_bar_value(fill.symbol)
                * fill.quantity
    IN  [h EXCEPT ![current_holdings] =
            [@ EXCEPT ![fill.symbol] = @ + cost,
                      !["commission"] = @ + fill.commission,
                      !["cash"] = @ - cost,
                      !["total_value"] = @ - cost]]

update_holdings_from_fill(h, fill) ==
    LET cost == fill_dir(fill) * get_latest_bar_value(fill.symbol)
                * fill.quantity
    IN  [h EXCEPT ![current_holdings] =
            [@ EXCEPT ![fill.symbol] = @ + cost,
                      !["commission"] = @ + fill.commission,
                      !["cash"] = @ - (cost + fill.commission),
                      !["total_value"] = @ - (cost + fill.commission)]]

\* (mutation of update_fill: the fill is also written into the last
\* positions snapshot)
update_fill_backdated(fill) ==
    /\ heap' = [update_holdings_from_fill(
                    update_positions_from_fill(heap, fill), fill)
                EXCEPT ![all_positions[Len(all_positions)]] =
                    [@ EXCEPT ![fill.symbol] =
                        @ + fill_dir(fill) * fill.quantity]]
    /\ UNCHANGED <<all_positions, all_holdings, current_positions,
                   current_holdings>>

update_fill(fill) ==
    /\ heap' = update_holdings_from_fill(
                   update_positions_from_fill(heap, fill), fill)
    /\ UNCHANGED <<all_positions, all_holdings, current_positions,
                   current_holdings>>

\* portfolio.py generate_naive_order: the order, or None
mkt_quantity == 1

Abs(x) == IF x < 0 THEN -x ELSE x

\* (mutation of generate_naive_order: a LONG signal is sized whatever the
\* current position)
generate_naive_order_any_position(signal) ==
    LET est_fill_cost == signal.cur_price * mkt_quantity
        cur_quantity == heap[current_positions][signal.symbol]
    IN  IF signal.signal_type = "EXIT" /\ cur_quantity < 0
        THEN OrderEvent(signal.symbol, Abs(cur_quantity), "BUY",
                        est_fill_cost)
        ELSE IF signal.signal_type = "EXIT" /\ cur_quantity > 0
        THEN OrderEvent(signal.symbol, Abs(cur_quantity), "SELL",
                        est_fill_cost)
        ELSE IF signal.signal_type = "SHORT" /\ cur_quantity = 0
        THEN OrderEvent(signal.symbol, mkt_quantity, "SELL", est_fill_cost)
        ELSE IF signal.signal_type = "LONG"
        THEN OrderEvent(signal.symbol, mkt_quantity, "BUY", est_fill_cost)
        ELSE NoneEvent

generate_naive_order(signal) ==
    LET est_fill_cost == signal.cur_price * mkt_quantity
        cur_quantity == heap[current_positions][signal.symbol]
    IN  IF signal.signal_type = "EXIT" /\ cur_quantity < 0
        THEN OrderEvent(signal.symbol, Abs(cur_quantity), "BUY",
                        est_fill_cost)
        ELSE IF signal.signal_type = "EXIT" /\ cur_quantity > 0
        THEN OrderEvent(signal.symbol, Abs(cur_quantity), "SELL",
                        est_fill_cost)
        ELSE IF signal.signal_type = "SHORT" /\ cur_quantity = 0
        THEN OrderEvent(signal.symbol, mkt_quantity, "SELL", est_fill_cost)
        ELSE IF signal.signal_type = "LONG" /\ cur_quantity = 0
        THEN OrderEvent(signal.symbol, mkt_quantity, "BUY", est_fill_cost)
        ELSE NoneEvent

\* portfolio.py update_signal: puts what generate_naive_order returned,
\* None included.
update_signal(signal) == <<generate_naive_order(signal)>>

\* ---------------------------------------------------------- collaborators
SeqsUpTo(S, n) == UNION {[1..k -> S] : k \in 0..n}

\* Events are named by their id.
Ids == DOMAIN trace
Dispatched == {n \in Ids : trace[n].pos # 0}

NumSignalsPut == Cardinality({n \in Ids : trace[n].type = "SIGNAL"})

\* Strategy.calc_signals: zero or more SignalEvents, each for a registered
\* symbol and priced at that symbol's latest close.
SignalChoices ==
    {c \in SeqsUpTo(Symbols \X SignalTypes, MaxSignals) :
        NumSignalsPut + Len(c) <= MaxTotalSignals}

calc_signals(c) ==
    [k \in DOMAIN c |->
        SignalEvent(c[k][1], c[k][2], get_latest_bar_value(c[k][1]))]

\* ExecutionHandler.execute_order: exactly one FillEvent per OrderEvent, on
\* the backtest venue, for the order's symbol, quantity and direction, the
\* commission left to the default model.  On the backtest venue the order
\* is filled at the signal's close without slippage (event.py:113).
FillCosts(order) == {order.est_fill_cost}

execute_order(order, fill_cost) ==
    <<FillEvent(order.symbol, "BT", order.quantity, order.direction,
                fill_cost, order.est_fill_cost, -1)>>

\* ---------------------------------------------------------------- engine
\* backtest.py _run_backtest, top of the outer loop
Advance ==
    /\ pc = "running"
    /\ continue_backtest = TRUE
    /\ i' = i + 1
    /\ update_bars
    /\ pc' = "draining"
    /\ UNCHANGED <<ledgerVars, counterVars, ret>>

Break ==
    /\ pc = "running"
    /\ continue_backtest # TRUE
    /\ i' = i + 1
    /\ pc' = "finished"
    /\ UNCHANGED <<events, dataVars, ledgerVars, counterVars, trace, ret>>

\* (mutation of DrainEmpty: the inner loop is left without looking at the
\* queue)
DrainLeftEarly ==
    /\ pc = "draining"
    /\ pc' = "running"
    /\ UNCHANGED <<i, events, dataVars, ledgerVars, counterVars, trace, ret>>

\* the inner loop: events.get(False) raised queue.Empty
DrainEmpty ==
    /\ pc = "draining"
    /\ Empty(events)
    /\ pc' = "running"
    /\ UNCHANGED <<i, events, dataVars, ledgerVars, counterVars, trace, ret>>

\* events.get(False) returned an event: the handler of `type` runs and puts
\* `out`
Got(type) ==
    /\ pc = "draining"
    /\ ~Empty(events)
    /\ Front(events).type = type

\* the history once the front event is popped and its handler has put out
Popped(out) ==
    [trace EXCEPT ![Front(events).id].pos = Cardinality(Dispatched) + 1]
        \o Traced(out, Front(events).id, i)

\* (mutation of PopAndPut: what the handler puts is served next, ahead of
\* the events already queued)
PopAndPutAhead(out) ==
    /\ events' = PutAll(<<>>, out, Len(trace)) \o Rest(events)
    /\ trace' = Popped(out)

PopAndPut(out) ==
    /\ events' = PutAll(Rest(events), out, Len(trace))
    /\ trace' = Popped(out)

DispatchMarket ==
    /\ Got("MARKET")
    /\ HasBar(symbol_list[1])
    /\ \E c \in SignalChoices : PopAndPut(calc_signals(c))
    /\ update_timeindex
    /\ UNCHANGED <<pc, i, dataVars, counterVars, ret>>

\* update_timeindex reads bars_list[-1] of a symbol with no visible bar:
\* the IndexError ends the run.
DispatchMarketNoData ==
    /\ Got("MARKET")
    /\ ~HasBar(symbol_list[1])
    /\ PopAndPut(<<>>)
    /\ pc' = "error"
    /\ UNCHANGED <<i, dataVars, ledgerVars, counterVars, ret>>

DispatchSignal ==
    /\ Got("SIGNAL")
    /\ signals' = signals + 1
    /\ PopAndPut(update_signal(Front(events)))
    /\ UNCHANGED <<pc, i, dataVars, ledgerVars, orders, fills, ret>>

DispatchOrder ==
    /\ Got("ORDER")
    /\ orders' = orders + 1
    /\ \E fc \in FillCosts(Front(events)) :
           PopAndPut(execute_order(Front(events), fc))
    /\ UNCHANGED <<pc, i, dataVars, ledgerVars, signals, fills, ret>>

DispatchFill ==
    /\ Got("FILL")
    /\ fills' = fills + 1
    /\ update_fill(Front(events))
    /\ PopAndPut(<<>>)
    /\ UNCHANGED <<pc, i, dataVars, signals, orders, ret>>

\* event is None, or its type is none of the four: no branch is taken
DispatchIgnored ==
    /\ pc = "draining"
    /\ ~Empty(events)
    /\ Front(events).type \notin EventTypes
    /\ PopAndPut(<<>>)
    /\ UNCHANGED <<pc, i, dataVars, ledgerVars, counterVars, ret>>

\* ------------------------------------------------------------------ init
\* The csv files: every symbol is reindexed on one calendar, so all
\* symbols hold the same number of bars; bar k of the calendar has
\* datetime k.
BarRows ==
    {r \in [{Listing[k] : k \in DOMAIN Listing} -> Prices] :
        r["A"] # r["B"]}

\* the close of every symbol moves from each bar to the next
Calendars ==
    {cal \in UNION {[1..n -> BarRows] : n \in 0..MaxBars} :
        \A k \in DOMAIN cal : k > 1 => cal[k] # cal[k - 1]}

Init ==
    /\ pc = "running"
    /\ i = 0
    /\ events = <<>>
    /\ \E cal \in Calendars :
           symbol_data = [s \in {Listing[k] : k \in DOMAIN Listing} |->
                             [k \in DOMAIN cal |-> Bar(k, cal[k][s])]]
    /\ latest_symbol_data = [s \in Symbols |-> <<>>]
    /\ continue_backtest = TRUE
    /\ heap = <<construct_all_positions, construct_current_positions,
                construct_all_holdings, construct_current_holdings>>
    /\ all_positions = <<1>>
    /\ current_positions = 2
    /\ all_holdings = <<3>>
    /\ current_holdings = 4
    /\ signals = 0
    /\ orders = 0
    /\ fills = 0
    /\ ret = NoCall
    /\ trace = <<>>

Next ==
    \/ Advance
    \/ Break
    \/ DrainEmpty
    \/ DispatchMarket
    \/ DispatchMarketNoData
    \/ DispatchSignal
    \/ DispatchOrder
    \/ DispatchFill
    \/ DispatchIgnored

Spec == Init /\ [][Next]_vars

\* The same engine with the strategy watched: ret tells whether some call
\* of calc_signals so far has put two signals for one symbol.
Repeats(c) == \E j, k \in DOMAIN c : j < k /\ c[j][1] = c[k][1]

Repeated == ret.op = "calc_signals" /\ ret.value

DispatchMarketWatched ==
    /\ Got("MARKET")
    /\ HasBar(symbol_list[1])
    /\ \E c \in SignalChoices :
           /\ PopAndPut(calc_signals(c))
           /\ ret' = Outcome("calc_signals", "", Len(c), "",
                            Repeated \/ Repeats(c))
    /\ update_timeindex
    /\ UNCHANGED <<pc, i, dataVars, counterVars>>

NextWatched ==
    \/ Advance
    \/ Break
    \/ DrainEmpty
    \/ DispatchMarketWatched
    \/ DispatchMarketNoData
    \/ DispatchSignal
    \/ DispatchOrder
    \/ DispatchFill
    \/ DispatchIgnored

SpecWatched == Init /\ [][NextWatched]_vars

\* The loop of _run_backtest keeps running: a step that can be taken is
\* taken.
SpecFair == Init /\ [][Next]_vars /\ WF_vars(Next)

\* ----------------------------------------------- an external venue as sink
\* ExecutionHandler.execute_order against a venue other than the backtest's
\* own: the fill carries the venue's fill cost, a commission when the venue
\* supplies one, and whatever direction the venue reports; a rejected order
\* comes back as an event of a kind of its own.
Slippages == {1000}
VenueCommissions == {5}
VenueDirections(order) == {order.direction, "HOLD"}

RejectedEvent == [Blank EXCEPT !.type = "REJECTED"]

VenueReplies(order) ==
    {FillEvent(order.symbol, "EXT", order.quantity, d,
               order.est_fill_cost + sl, order.est_fill_cost, c) :
        d \in VenueDirections(order), sl \in Slippages,
        c \in {-1} \cup VenueCommissions}
    \cup {[RejectedEvent EXCEPT !.symbol = order.symbol]}

DispatchOrderVenue ==
    /\ Got("ORDER")
    /\ orders' = orders + 1
    /\ \E r \in VenueReplies(Front(events)) : PopAndPut(<<r>>)
    /\ UNCHANGED <<pc, i, dataVars, ledgerVars, signals, fills, ret>>

NextOpen ==
    \/ Next
    \/ DispatchOrderVenue

SpecOpen == Init /\ [][NextOpen]_vars

\* ------------------------------------------- a client of the data handler
\* The DataHandler interface called directly: update_bars whatever the
\* flag says, and the queries for registered and unregistered symbols.
UnknownSymbols == {"Z"}
Queried == Symbols \cup UnknownSymbols

clientFrame == <<pc, i, events, dataVars, ledgerVars, counterVars, trace>>

ClientUpdateBars ==
    /\ Cardinality({n \in Ids : trace[n].cause = 0}) < MaxCalls
    /\ update_bars
    /\ ret' = Outcome("update_bars", "", 0, "", <<>>)
    /\ UNCHANGED <<pc, i, ledgerVars, counterVars>>

ClientGetLatestBar ==
    /\ \E symbol \in Queried : ret' = get_latest_bar(symbol)
    /\ UNCHANGED clientFrame

ClientGetLatestBarDatetime ==
    /\ \E symbol \in Queried : ret' = call_get_latest_bar_datetime(symbol)
    /\ UNCHANGED clientFrame

ClientGetLatestNBars ==
    /\ \E symbol \in Queried, N \in 0..MaxN :
           ret' = get_latest_n_bars(symbol, N)
    /\ UNCHANGED clientFrame

ClientGetLatestNBarsValue ==
    /\ \E symbol \in Queried, N \in 0..MaxN :
           ret' = get_latest_n_bars_value(symbol, N)
    /\ UNCHANGED clientFrame

NextStream ==
    \/ ClientUpdateBars
    \/ ClientGetLatestBar
    \/ ClientGetLatestBarDatetime
    \/ ClientGetLatestNBars
    \/ ClientGetLatestNBarsValue

SpecStream == Init /\ [][NextStream]_vars

\* ------------------------------------------------- a client of the ledger
\* Portfolio.update_fill called directly with the FillEvents a sink can
\* build: on the backtest venue at the estimated cost, on an external
\* venue with slippage; the commission left to the default model or
\* supplied by the venue; the estimated cost is the latest close, as
\* generate_naive_order sets it.
FillInputs ==
    {FillEvent(symbol, exchange, mkt_quantity, direction,
               get_latest_bar_value(symbol) + slippage,
               get_latest_bar_value(symbol), commission) :
        symbol \in {s \in Symbols : HasBar(s)},
        exchange \in {"BT", "EXT"},
        direction \in {"BUY", "SELL"},
        slippage \in {0} \cup Slippages,
        commission \in {-1} \cup VenueCommissions}

ClientUpdateFill ==
    /\ fills < MaxFills
    /\ \E fill \in FillInputs :
           /\ fill.exchange = "BT" => fill.fill_cost = fill.est_fill_cost
           /\ update_fill(fill)
           /\ ret' = Outcome("update_fill", fill.symbol, 0, "", fill)
    /\ fills' = fills + 1
    /\ UNCHANGED <<pc, i, events, dataVars, signals, orders, trace>>

NextLedger ==
    \/ ClientUpdateBars
    \/ ClientUpdateFill

SpecLedger == Init /\ [][NextLedger]_vars

\* ------------------------------------------------- a client of event.py
\* FillEvent(...) built directly, with any pairing of venue, fill cost and
\* estimated cost; N records the commission argument (-1: None)
ClientFillEvent ==
    /\ \E symbol \in Symbols,
          exchange \in {"BT", "EXT"},
          direction \in {"BUY", "SELL"},
          est_fill_cost \in Prices,
          slippage \in {0} \cup Slippages,
          commission \in {-1, 0} \cup VenueCommissions :
           ret' = Outcome("FillEvent", symbol, commission, "",
                          FillEvent(symbol, exchange, mkt_quantity, direction,
                                    est_fill_cost + slippage, est_fill_cost,
                                    commission))
    /\ UNCHANGED clientFrame

NextEvents ==
    \/ ClientFillEvent

SpecEvents == Init /\ [][NextEvents]_vars

\* ------------------------------------------------------------- analytics
\* performance.py create_sharpe_ratio.  The periods of a year; 0 stands for
\* n = None.
PeriodsDaily == 252
PeriodsHourly == (252 * 65) \div 10
PeriodsMinutely == ((252 * 65) \div 10) * 60

RECURSIVE SeqSum(_)
SeqSum(xs) == IF xs = <<>> THEN 0 ELSE Head(xs) + SeqSum(Tail(xs))

\* np.sqrt(n) * (np.mean(returns) / np.std(returns)) is kept exact as the
\* three integers it is made of: with S the sum of the L returns and Q the
\* sum of their squares, mean / std = S / sqrt(L * Q - S * S), so the ratio
\* is sqrt(n) * S / sqrt(V), V = L * Q - S * S (V = 0: the division by a
\* zero deviation, which numpy answers with nan or inf).
Ratio(n, returns) ==
    LET S == SeqSum(returns)
        Q == SeqSum([k \in DOMAIN returns |-> returns[k] * returns[k]])
    IN  [n |-> n, S |-> S, V |-> Len(returns) * Q - S * S]

\* (mutation of create_sharpe_ratio: an unknown periods falls back on the
\* daily factor)
create_sharpe_ratio_defaulting(returns, periods) ==
    LET n == CASE periods = "daily" -> PeriodsDaily
               [] periods = "hourly" -> PeriodsHourly
               [] periods = "minutely" -> PeriodsMinutely
               [] OTHER -> PeriodsDaily
    IN  IF n = 0
        THEN Outcome("create_sharpe_ratio", periods, 0, "TypeError", <<>>)
        ELSE Outcome("create_sharpe_ratio", periods, 0, "",
                     Ratio(n, returns))

\* an unknown periods prints and leaves n = None: np.sqrt(None) raises
\* TypeError
create_sharpe_ratio(returns, periods) ==
    LET n == CASE periods = "daily" -> PeriodsDaily
               [] periods = "hourly" -> PeriodsHourly
               [] periods = "minutely" -> PeriodsMinutely
               [] OTHER -> 0
    IN  IF n = 0
        THEN Outcome("create_sharpe_ratio", periods, 0, "TypeError", <<>>)
        ELSE Outcome("create_sharpe_ratio", periods, 0, "",
                     Ratio(n, returns))

\* the inputs of a client: period returns in percent, and the names a
\* configuration may give
MaxReturns == 3
ReturnValues == {-1, 0, 2}
ReturnSeries == UNION {[1..k -> ReturnValues] : k \in 1..MaxReturns}
PeriodNames == {"daily", "hourly", "minutely", "weekly", "Daily", ""}

ClientSharpe ==
    /\ \E returns \in ReturnSeries, periods \in PeriodNames :
           ret' = [create_sharpe_ratio(returns, periods)
                      EXCEPT !.N = Len(returns)]
    /\ UNCHANGED clientFrame

NextAnalytics ==
    \/ ClientSharpe

SpecAnalytics == Init /\ [][NextAnalytics]_vars

\* ---------------------------------------------------------------- report
\* The floats of the equity curve are kept exact, as fractions
\* <<numerator, denominator>> in lowest terms; <<0, 0>> is NaN.
RECURSIVE GCD(_, _)
GCD(a, b) == IF b = 0 THEN a ELSE GCD(b, a % b)

NaN == <<0, 0>>
IsNaN(x) == x[2] = 0

Frac(n, d) ==
    IF d = 0 THEN NaN
    ELSE LET g == GCD(Abs(n), Abs(d))
         IN  IF d < 0 THEN <<(0 - n) \div g, (0 - d) \div g>>
             ELSE <<n \div g, d \div g>>

Zero == Frac(0, 1)
One == Frac(1, 1)

FracAdd(x, y) ==
    IF IsNaN(x) \/ IsNaN(y) THEN NaN
    ELSE Frac(x[1] * y[2] + y[1] * x[2], x[2] * y[2])

FracSub(x, y) ==
    IF IsNaN(x) \/ IsNaN(y) THEN NaN
    ELSE Frac(x[1] * y[2] - y[1] * x[2], x[2] * y[2])

FracMul(x, y) ==
    IF IsNaN(x) \/ IsNaN(y) THEN NaN
    ELSE Frac(x[1] * y[1], x[2] * y[2])

\* x < y of floats: False when either is NaN
FracLess(x, y) ==
    /\ ~IsNaN(x)
    /\ ~IsNaN(y)
    /\ x[1] * y[2] < y[1] * x[2]

\* max(x, y) of Python: y if y > x, else x
FracMax(x, y) == IF FracLess(x, y) THEN y ELSE x

\* Series.pct_change: the first entry has no predecessor
pct_change(v) ==
    [t \in DOMAIN v |->
        IF t = 1 THEN NaN ELSE Frac(v[t] - v[t - 1], v[t - 1])]

\* Series.cumprod: a NaN entry stays NaN and is skipped by the product
cumprod(xs) ==
    LET prod[t \in 0..Len(xs)] ==
            IF t = 0 THEN One
            ELSE IF IsNaN(xs[t]) THEN prod[t - 1]
            ELSE FracMul(prod[t - 1], xs[t])
    IN  [t \in DOMAIN xs |-> IF IsNaN(xs[t]) THEN NaN ELSE prod[t]]

\* Series.max: over the entries that are not NaN
SeriesMax(xs) ==
    LET best[t \in 0..Len(xs)] ==
            IF t = 0 THEN NaN
            ELSE IF IsNaN(best[t - 1]) THEN xs[t]
            ELSE FracMax(best[t - 1], xs[t])
    IN  best[Len(xs)]

\* portfolio.py create_equity_curve_dataframe: one row per dict of
\* all_holdings, the seeded one included
total_value_column ==
    [k \in DOMAIN all_holdings |-> heap[all_holdings[k]]["total_value"]]

returns_column == pct_change(total_value_column)

equity_curve_column ==
    cumprod([t \in DOMAIN returns_column |->
                FracAdd(One, returns_column[t])])

\* performance.py create_drawdowns: index 0 of hwm is 0, index 0 of
\* drawdown and duration is never assigned (sequences start at 1 here)
create_drawdowns(pnl) ==
    LET hwm[t \in DOMAIN pnl] ==
            IF t = 1 THEN Zero ELSE FracMax(hwm[t - 1], pnl[t])
        drawdown == [t \in DOMAIN pnl |->
                        IF t = 1 THEN NaN ELSE FracSub(hwm[t], pnl[t])]
        duration[t \in DOMAIN pnl] ==
            IF t = 1 THEN NaN
            ELSE IF drawdown[t] = Zero THEN Zero
            ELSE FracAdd(duration[t - 1], One)
    IN  [drawdown |-> drawdown, max_dd |-> SeriesMax(drawdown),
         max_dd_duration |-> SeriesMax(duration)]

\* portfolio.py output_summary_stats, the Sharpe ratio left to
\* create_sharpe_ratio above (periods = 'minutely': it does not raise)
output_summary_stats ==
    LET dd == create_drawdowns(equity_curve_column)
    IN  [total_return |-> equity_curve_column[Len(equity_curve_column)],
         returns |-> returns_column,
         equity_curve |-> equity_curve_column,
         drawdown |-> dd.drawdown,
         max_dd |-> dd.max_dd,
         max_dd_duration |-> dd.max_dd_duration]

\* backtest.py simulate_trading: _run_backtest, then _output_performance
OutputPerformance ==
    /\ pc = "finished"
    /\ pc' = "reported"
    /\ ret' = Outcome("output_summary_stats", "", Len(all_holdings), "",
                      output_summary_stats)
    /\ UNCHANGED <<i, events, dataVars, ledgerVars, counterVars, trace>>

NextSimulate ==
    \/ Next
    \/ OutputPerformance

SpecSimulate == Init /\ [][NextSimulate]_vars

\* ------------------------------------------------------ loading the csv files
\* data.py _open_convert_csv_files on its own.  A csv file is the set of its
\* native timestamps, at least one (sort_index puts them in ascending
\* order); a symbol
\* list is a non-empty sequence of distinct symbols.  comb_index is the
\* index of the first symbol of the list: the result of comb_index.union(...)
\* for the later symbols is not assigned.  reindex(index=comb_index,
\* method='pad') gives every symbol one row per entry of comb_index, taken
\* from the latest native row at or before it (native 0: no such row, the
\* row is NaN).
MaxStamp == 3
Stamps == 1..MaxStamp
SymbolLists == {l \in UNION {[1..n -> {Listing[k] : k \in DOMAIN Listing}] : n \in 1..Len(Listing)} : \A a, b \in DOMAIN l : a # b => l[a] # l[b]}
CsvFiles == [{Listing[k] : k \in DOMAIN Listing} -> SUBSET Stamps \ {{}}]

sort_index(stamps) == CHOOSE idx \in [1..Cardinality(stamps) -> stamps] : \A a, b \in DOMAIN idx : a < b => idx[a] < idx[b]

pad(stamps, t) == IF \E u \in stamps : u <= t THEN CHOOSE u \in stamps : u <= t /\ \A v \in stamps : v <= t => v <= u ELSE 0

open_convert_csv_files(symbols, csv) ==
    LET comb_index == sort_index(csv[symbols[1]])
    IN  [s \in {symbols[k] : k \in DOMAIN symbols} |->
            [k \in DOMAIN comb_index |->
                [datetime |-> comb_index[k],
                 native |-> pad(csv[s], comb_index[k])]]]

ClientOpenCsv ==
    /\ \E symbols \in SymbolLists, csv \in CsvFiles :
           ret' = Outcome("_open_convert_csv_files", symbols[1], Len(symbols), "",
                          [symbol_list |-> symbols,
                           csv |-> [s \in {symbols[k] : k \in DOMAIN symbols} |-> csv[s]],
                           symbol_data |-> open_convert_csv_files(symbols, csv)])
    /\ UNCHANGED clientFrame

NextLoad ==
    \/ ClientOpenCsv

SpecLoad == Init /\ [][NextLoad]_vars

\* create_drawdowns called directly on an equity curve
MaxCurve == 4
CurveValues == {Frac(90, 100), Frac(100, 100), Frac(105, 100), Frac(120, 100)}
Curves == UNION {[1..k -> CurveValues] : k \in 1..MaxCurve}

ClientDrawdowns ==
    /\ \E pnl \in Curves :
           ret' = Outcome("create_drawdowns", "", Len(pnl), "",
                          [pnl |-> pnl] @@ create_drawdowns(pnl))
    /\ UNCHANGED clientFrame

NextDrawdowns ==
    \/ ClientDrawdowns

SpecDrawdowns == Init /\ [][NextDrawdowns]_vars

\* -------------------------------------------------- the end-to-end scenario
\* One symbol, seven bars, a strategy that follows the last move of the
\* close, the backtest venue as sink.
ScenarioCloses == <<10000, 10000, 10000, 12000, 12000, 8000, 8000>>
Capitals == {initial_cap, 100 * initial_cap}

\* the symbols whose close moved on the latest bar
Moved(s) ==
    /\ Len(latest_symbol_data[s]) >= 2
    /\ get_latest_bar_value(s)
           # latest_symbol_data[s][Len(latest_symbol_data[s]) - 1].close

Rose(s) ==
    get_latest_bar_value(s)
        > latest_symbol_data[s][Len(latest_symbol_data[s]) - 1].close

\* Strategy.calc_signals of the scenario: LONG when the close rose, EXIT
\* when it fell
calc_signals_on_moves ==
    LET movers == SelectSeq(symbol_list, Moved)
    IN  [k \in DOMAIN movers |->
            SignalEvent(movers[k], IF Rose(movers[k]) THEN "LONG" ELSE "EXIT",
                        get_latest_bar_value(movers[k]))]

DispatchMarketOnMoves ==
    /\ Got("MARKET")
    /\ HasBar(symbol_list[1])
    /\ PopAndPut(calc_signals_on_moves)
    /\ update_timeindex
    /\ UNCHANGED <<pc, i, dataVars, counterVars, ret>>

InitScenario ==
    /\ pc = "running"
    /\ i = 0
    /\ events = <<>>
    /\ \E k \in DOMAIN Listing :
           symbol_data = [s \in {Listing[k]} |->
                             [t \in DOMAIN ScenarioCloses |->
                                 Bar(t, ScenarioCloses[t])]]
    /\ latest_symbol_data = [s \in Symbols |-> <<>>]
    /\ continue_backtest = TRUE
    /\ \E cap \in Capitals :
           heap = <<construct_all_positions, construct_current_positions,
                    [construct_all_holdings EXCEPT
                        !["cash"] = cap, !["total_value"] = cap],
                    [construct_current_holdings EXCEPT
                        !["cash"] = cap, !["total_value"] = cap]>>
    /\ all_positions = <<1>>
    /\ current_positions = 2
    /\ all_holdings = <<3>>
    /\ current_holdings = 4
    /\ signals = 0
    /\ orders = 0
    /\ fills = 0
    /\ ret = NoCall
    /\ trace = <<>>

\* the handlers the scenario reaches: it puts no None and has no empty
\* calendar
NextScenario ==
    \/ Advance
    \/ Break
    \/ DrainEmpty
    \/ DispatchMarketOnMoves
    \/ DispatchSignal
    \/ DispatchOrder
    \/ DispatchFill

SpecScenario == InitScenario /\ [][NextScenario]_vars

\* ================================================================ claims
Queued == Ids \ Dispatched

OfType(S, type) == {n \in S : trace[n].type = type}

\* the ids of the events that transitively caused event n: the event whose
\* handler put it, the one whose handler put that event, ...
RECURSIVE Causes(_)
Causes(n) ==
    IF trace[n].cause = 0 THEN {}
    ELSE {trace[n].cause} \cup Causes(trace[n].cause)

\* (bound by a quantifier, the map is computed once per state)
CausesOf == [n \in Ids |-> Causes(n)]

\* b is not dispatched unless a was, earlier
Precedes(a, b) ==
    trace[b].pos # 0 => trace[a].pos # 0 /\ trace[a].pos < trace[b].pos

NumBars ==
    Len(latest_symbol_data[symbol_list[1]]) + Len(symbol_data[symbol_list[1]])

\* C1: update_bars runs only on an empty queue: the queue never holds more
\* than one MARKET event, and while the MARKET event of an iteration is in
\* the queue every event put in an earlier iteration (the SIGNAL, ORDER and
\* FILL events of the earlier bars) has been dispatched.
C1_OneBarInFlight ==
    /\ Cardinality(OfType(Queued, "MARKET")) <= 1
    /\ \A m \in OfType(Queued, "MARKET") :
           \A e \in Ids : trace[e].bar < trace[m].bar => e \in Dispatched
    /\ \A e \in Queued : trace[e].bar = i

C1_Witness ==
    /\ \E m \in OfType(Queued, "MARKET") : trace[m].bar >= 2
    /\ OfType(Dispatched, "FILL") # {}
    /\ OfType(Dispatched, "ORDER") # {}
    /\ OfType(Dispatched, "SIGNAL") # {}

\* C2: the engine dispatches events in the order of their put: an event
\* put before a dispatched event has been dispatched, and earlier.
C2_Fifo == \A e1, e2 \in Ids : e1 < e2 => Precedes(e1, e2)

C2_Witness ==
    /\ \E s1, s2 \in OfType(Dispatched, "SIGNAL") :
           trace[s1].cause = trace[s2].cause /\ s1 # s2
    /\ OfType(Dispatched, "FILL") # {}
    /\ \E m \in OfType(Dispatched, "MARKET") :
           \A e \in Ids : trace[e].cause # m

\* C3 as stated: for e1 put before e2, every event e1 transitively causes
\* is dispatched before e2 (e2 not itself caused by e1).
C3_DepthFirst ==
    \A C \in {CausesOf} :
        \A d, e2 \in Ids :
            \A e1 \in C[d] : (e1 < e2 /\ e1 \notin C[e2]) => Precedes(d, e2)

\* C3 amended: for e1 put before e2, e1 is dispatched before e2 (each event
\* before the one put right after it, hence before all later ones); what e1
\* causes goes behind the events already queued, so of two SIGNAL events
\* S1, S2 put by one MARKET handler, S2 is dispatched before the ORDER and
\* FILL caused by S1; and everything e1 transitively causes is dispatched
\* before e2 when e2 was put in a later iteration of the outer loop.
C3_BreadthFirst ==
    \A C \in {CausesOf} :
        /\ \A e1 \in Ids : e1 + 1 \in Ids => Precedes(e1, e1 + 1)
        /\ \A s1, s2 \in OfType(Ids, "SIGNAL") :
               (trace[s1].cause = trace[s2].cause /\ s1 < s2) =>
                   \A d \in Ids : s1 \in C[d] => Precedes(s2, d)
        /\ \A e2 \in Dispatched :
               \A d \in Ids :
                   (\E e1 \in C[d] : trace[e1].bar < trace[e2].bar)
                       => Precedes(d, e2)

C3_Witness ==
    \E s1, s2 \in OfType(Dispatched, "SIGNAL") :
        /\ trace[s1].cause = trace[s2].cause /\ s1 < s2
        /\ \E o \in OfType(Dispatched, "ORDER") :
               /\ trace[o].cause = s1
               /\ trace[s2].pos < trace[o].pos
               /\ \E f \in OfType(Dispatched, "FILL") : trace[f].cause = o
        /\ \E m \in OfType(Dispatched, "MARKET") :
               trace[m].bar > trace[s1].bar

\* C4: the advance that finds the stream exhausted puts no MARKET event: a
\* run over a calendar of B bars puts (and dispatches) at most B MARKET
\* events.
C4_NoMarketOnExhaustion ==
    Cardinality(OfType(Ids, "MARKET")) <= NumBars

\* C5: an event whose type is none of MARKET, SIGNAL, ORDER, FILL ends the
\* run in an error when it is popped.
C5_UnknownTypeIsError ==
    [][(/\ pc = "draining"
        /\ ~Empty(events)
        /\ Front(events).type \notin EventTypes \cup {"None"})
       => pc' = "error"]_vars

\* C6: a FILL whose direction is neither BUY nor SELL ends in an error and
\* leaves positions, cash, commission and total_value as they were.
C6_BadDirectionIsError ==
    [][(Got("FILL") /\ Front(events).direction \notin {"BUY", "SELL"})
       => /\ pc' = "error"
          /\ heap'[current_positions'] = heap[current_positions]
          /\ \A k \in {"cash", "commission", "total_value"} :
                 heap'[current_holdings'][k] = heap[current_holdings][k]]_vars

\* C7: all_holdings and all_positions have one row more than the ledger
\* has processed MARKET events (the MARKET event whose update_timeindex
\* raised is not processed).
MarketsProcessed ==
    Cardinality(OfType(Dispatched, "MARKET"))
        - (IF pc = "error" THEN 1 ELSE 0)

C7_HistoryLengths ==
    /\ Len(all_holdings) = Len(all_positions)
    /\ Len(all_positions) = MarketsProcessed + 1

C7_Witness ==
    /\ Len(all_holdings) >= 3
    /\ OfType(Dispatched, "SIGNAL") # {}
    /\ OfType(Dispatched, "FILL") # {}

\* C8: every row of all_holdings has total_value = cash + the sum over the
\* symbols of the quantity in the positions row of the same rank times the
\* close of the bar the row is stamped with (the seeded row has no bar and
\* no position).
AllBars(s) == latest_symbol_data[s] \o symbol_data[s]

CloseAt(k, s) ==
    IF k = 1 THEN 0 ELSE AllBars(s)[heap[all_holdings[k]]["datetime"]].close

C8_Conservation ==
    \A k \in DOMAIN all_holdings :
        /\ k \in DOMAIN all_positions
        /\ heap[all_holdings[k]]["total_value"] =
               heap[all_holdings[k]]["cash"]
               + SumOver([s \in Symbols |->
                             heap[all_positions[k]][s] * CloseAt(k, s)],
                         Symbols)

C8_Witness ==
    \E k \in DOMAIN all_holdings :
        /\ k > 2
        /\ heap[all_holdings[k]]["datetime"]
               # heap[all_holdings[k - 1]]["datetime"]
        /\ \E s \in Symbols : heap[all_positions[k]][s] # 0
        /\ heap[all_holdings[k]]["total_value"]
               # heap[all_holdings[k - 1]]["total_value"]
        /\ heap[all_holdings[k]]["total_value"]
               # heap[all_holdings[k]]["cash"]

\* C9: the current position of a symbol changes only in the dispatch of a
\* FILL event for that symbol.
C9_PositionFrame ==
    [][\A s \in Symbols :
           heap'[current_positions'][s] # heap[current_positions][s]
               => Got("FILL") /\ Front(events).symbol = s]_vars

C9_Witness ==
    /\ heap[current_positions]["B"] # 0
    /\ heap[current_positions]["A"] = 0
    /\ Len(all_positions) >= 3
    /\ heap[all_positions[Len(all_positions)]]["B"] # 0
    /\ OfType(Dispatched, "None") # {}

\* C10: a row of all_positions or all_holdings, once appended, is never
\* removed, moved or changed in any field.
C10_AppendOnly ==
    [][/\ \A k \in DOMAIN all_positions :
              /\ k \in DOMAIN all_positions'
              /\ heap'[all_positions'[k]] = heap[all_positions[k]]
       /\ \A k \in DOMAIN all_holdings :
              /\ k \in DOMAIN all_holdings'
              /\ heap'[all_holdings'[k]] = heap[all_holdings[k]]]_vars

C10_Witness ==
    /\ Len(all_holdings) >= 3
    /\ heap[all_holdings[2]]["cash"] # heap[current_holdings]["cash"]
    /\ heap[all_holdings[3]]["cash"] # heap[all_holdings[2]]["cash"]
    /\ heap[all_positions[2]]["A"] # heap[current_positions]["A"]

\* C11: order sizing.  With q the current position of the signal's symbol
\* when the SIGNAL is dispatched, the handler puts exactly one event and
\* leaves the ledger alone: LONG and q = 0 give a BUY order of quantity 1,
\* SHORT and q = 0 a SELL order of quantity 1, EXIT and q > 0 a SELL order
\* of quantity |q|, EXIT and q < 0 a BUY order of quantity |q|, all for the
\* signal's symbol; any other combination puts no ORDER event, and what it
\* puts (None) reaches neither the execution sink nor the ledger when it is
\* popped.
C11_Sized(put, symbol, direction, quantity) ==
    /\ put.type = "ORDER"
    /\ put.symbol = symbol
    /\ put.direction = direction
    /\ put.quantity = quantity

C11_OrderSizing ==
    [][/\ Got("SIGNAL") =>
              LET sig == Front(events)
                  q == heap[current_positions][sig.symbol]
                  put == events'[Len(events')]
              IN  /\ Len(events') = Len(events)
                  /\ Rest(events) = SubSeq(events', 1, Len(events) - 1)
                  /\ UNCHANGED ledgerVars
                  /\ CASE sig.signal_type = "LONG" /\ q = 0 ->
                              C11_Sized(put, sig.symbol, "BUY", 1)
                       [] sig.signal_type = "SHORT" /\ q = 0 ->
                              C11_Sized(put, sig.symbol, "SELL", 1)
                       [] sig.signal_type = "EXIT" /\ q > 0 ->
                              C11_Sized(put, sig.symbol, "SELL", q)
                       [] sig.signal_type = "EXIT" /\ q < 0 ->
                              C11_Sized(put, sig.symbol, "BUY", -q)
                       [] OTHER -> put.type = "None"
       /\ (pc = "draining" /\ ~Empty(events)
              /\ Front(events).type = "None") =>
              /\ events' = Rest(events)
              /\ UNCHANGED <<ledgerVars, orders, fills>>]_vars

\* the None of a LONG against a short position has been popped, and the
\* BUY order of the EXIT of that short position is next
C11_Witness ==
    /\ OfType(Dispatched, "None") # {}
    /\ ~Empty(events)
    /\ Front(events).type = "ORDER"
    /\ Front(events).direction = "BUY"
    /\ heap[current_positions][Front(events).symbol] < 0
    /\ Front(events).quantity = -heap[current_positions][Front(events).symbol]

\* C12: the dispatch of a BUY or SELL FILL changes cash by
\* -(d * fill_cost * quantity + commission), d = 1 for BUY and -1 for SELL,
\* fill_cost being the field of the Fill event; the cumulative commission
\* grows by the fill's commission.
C12_CashFromFillCost ==
    [][(Got("FILL") /\ Front(events).direction \in {"BUY", "SELL"}) =>
          LET fill == Front(events)
              d == IF fill.direction = "BUY" THEN 1 ELSE -1
          IN  /\ heap'[current_holdings']["cash"] =
                     heap[current_holdings]["cash"]
                     - (d * fill.fill_cost * fill.quantity + fill.commission)
              /\ heap'[current_holdings']["commission"] =
                     heap[current_holdings]["commission"] + fill.commission]_vars

\* every Fill event, queued or just applied, has a commission >= 0, and
\* so has the ledger
C13_NonNegative ==
    /\ \A k \in DOMAIN events :
           events[k].type = "FILL" => events[k].commission >= 0
    /\ ret.op = "update_fill" => ret.value.commission >= 0
    /\ heap[current_holdings]["commission"] >= 0

Advances == Cardinality({n \in Ids : trace[n].cause = 0})

Min(a, b) == IF a < b THEN a ELSE b

\* C14: no look-ahead.  The visible bars of a symbol change only in the
\* step that calls update_bars; the calendar itself never changes; after
\* update_bars has been called c times the visible bars of every symbol
\* are the first min(c, length) bars of its calendar; and the dispatch of
\* an event changes neither the latest bar, its datetime nor its close.
C14_NoLookAhead ==
    [][/\ latest_symbol_data' # latest_symbol_data =>
              pc = "running" /\ continue_backtest = TRUE /\ pc' = "draining"
       /\ \A s \in Symbols :
              /\ AllBars(s)' = AllBars(s)
              /\ latest_symbol_data'[s] =
                     SubSeq(AllBars(s), 1, Min(Advances', Len(AllBars(s))))
       /\ pc = "draining" =>
              \A s \in Symbols :
                  /\ HasBar(s)' = HasBar(s)
                  /\ HasBar(s) =>
                         /\ LatestBar(s)' = LatestBar(s)
                         /\ get_latest_bar_value(s)' = get_latest_bar_value(s)
                         /\ get_latest_bar_datetime(s)'
                                = get_latest_bar_datetime(s)]_vars

\* a fill has been dispatched in a drain with one bar visible and one still
\* to come
C14_Witness ==
    /\ pc = "draining"
    /\ fills >= 1
    /\ \A s \in Symbols :
           Len(latest_symbol_data[s]) = 1 /\ symbol_data[s] # <<>>

\* C15: for a registered symbol with k visible bars and every N >= 0,
\* get_latest_n_bars(symbol, N) returns, without raising, the min(N, k) most
\* recent visible bars, oldest first; get_latest_n_bars_value their closes.
C15_MostRecent(symbol, N) ==
    LET bars_list == latest_symbol_data[symbol]
        k == Len(bars_list)
    IN  SubSeq(bars_list, k - Min(N, k) + 1, k)

C15_LatestN ==
    (ret.op \in {"get_latest_n_bars", "get_latest_n_bars_value"}
        /\ ret.symbol \in Symbols) =>
        /\ ret.raised = ""
        /\ Len(ret.value) = Min(ret.N, Len(latest_symbol_data[ret.symbol]))
        /\ ret.op = "get_latest_n_bars" =>
               ret.value = C15_MostRecent(ret.symbol, ret.N)
        /\ ret.op = "get_latest_n_bars_value" =>
               ret.value = [k \in DOMAIN ret.value |->
                               C15_MostRecent(ret.symbol, ret.N)[k].close]

\* C16: get_latest_bar and get_latest_bar_datetime raise one error for a
\* symbol that was never registered and another for a registered symbol
\* with no visible bar, and return the latest bar (its datetime) otherwise;
\* the call changes nothing of the stream.
C16_TwoErrors ==
    [][ret'.op \in {"get_latest_bar", "get_latest_bar_datetime"} =>
          /\ UNCHANGED <<symbol_data, latest_symbol_data, continue_backtest,
                         events>>
          /\ ret'.symbol \notin Symbols => ret'.raised = "KeyError"
          /\ (ret'.symbol \in Symbols /\ ~HasBar(ret'.symbol)) =>
                 ret'.raised = "IndexError"
          /\ (ret'.symbol \in Symbols /\ HasBar(ret'.symbol)) =>
                 /\ ret'.raised = ""
                 /\ ret'.value = IF ret'.op = "get_latest_bar"
                                 THEN LatestBar(ret'.symbol)
                                 ELSE LatestBar(ret'.symbol).datetime]_vars

\* both failures have been seen once the calendar has bars to come
C16_Witness ==
    /\ ret.op = "get_latest_bar"
    /\ ret.raised = "IndexError"
    /\ ret.symbol \in Symbols
    /\ symbol_data[ret.symbol] # <<>>
    /\ ~HasBar(ret.symbol)

\* C17: once update_bars has cleared continue_backtest, every later call
\* returns without raising, leaves the flag cleared and leaves the visible
\* bars of every symbol as they were.
C17_ExhaustedForGood ==
    [][continue_backtest = FALSE =>
          /\ continue_backtest' = FALSE
          /\ latest_symbol_data' = latest_symbol_data
          /\ symbol_data' = symbol_data
          /\ ret'.op = "update_bars" => ret'.raised = ""]_vars

\* update_bars has been called twice more than the calendar has bars
C17_Witness ==
    /\ continue_backtest = FALSE
    /\ ret.op = "update_bars"
    /\ NumBars >= 1
    /\ Advances >= NumBars + 2

\* C18: create_sharpe_ratio called with a periods other than daily, hourly
\* or minutely raises and returns no ratio; for the three presets it
\* returns the ratio annualized by 252, 252 * 6.5 and 252 * 6.5 * 60.
C18_Presets == [daily |-> 252, hourly |-> 1638, minutely |-> 98280]

C18_NoDefaultFactor ==
    ret.op = "create_sharpe_ratio" =>
        IF ret.symbol \in DOMAIN C18_Presets
        THEN ret.raised = "" /\ ret.value.n = C18_Presets[ret.symbol]
        ELSE ret.raised # "" /\ ret.value = <<>>

C18_Witness ==
    /\ ret.op = "create_sharpe_ratio"
    /\ ret.symbol = "weekly"
    /\ ret.raised = "TypeError"
    /\ ret.N = MaxReturns

\* C19: in a run whose strategy has put no signal, no ORDER and no FILL is
\* put or dispatched, every position is 0, every holdings row has
\* cash = total_value = initial_cap, and once the run is reported the
\* equity curve has one value in all its entries and the maximum drawdown
\* of create_drawdowns is 0.
C19_QuietLedger ==
    /\ OfType(Ids, "ORDER") = {} /\ OfType(Ids, "FILL") = {}
    /\ orders = 0 /\ fills = 0
    /\ \A s \in Symbols :
           /\ heap[current_positions][s] = 0
           /\ \A k \in DOMAIN all_positions : heap[all_positions[k]][s] = 0
    /\ \A k \in DOMAIN all_holdings :
           /\ heap[all_holdings[k]]["cash"] = initial_cap
           /\ heap[all_holdings[k]]["total_value"] = initial_cap

C19_QuietRun ==
    NumSignalsPut = 0 =>
        /\ C19_QuietLedger
        /\ ret.op = "output_summary_stats" =>
               /\ \A t \in DOMAIN ret.value.equity_curve :
                      ret.value.equity_curve[t] = ret.value.equity_curve[1]
               /\ ret.value.max_dd = Zero

\* The scenario of C20, the sale changing cash by sale_delta: every FILL
\* dispatched is either the one BUY fill of quantity 1, dispatched in the
\* drain of bar 4 (the first close of 12) and lowering cash by 12, or the
\* one SELL fill of quantity 1, dispatched in the drain of bar 6 (the first
\* close of 8) with a commission of 0.024 and changing cash by sale_delta;
\* the run finishes with both dispatched, and every event popped is one
\* of the four kinds.
C20_Scenario(sale_delta) ==
    /\ Got("FILL") =>
           LET fill == Front(events)
               bars == Len(latest_symbol_data[fill.symbol])
               cash == heap[current_holdings]["cash"]
               cash_after == heap'[current_holdings']["cash"]
           IN  /\ fill.quantity = 1
               /\ fill.exchange = "BT"
               /\ \/ /\ fill.direction = "BUY"
                     /\ fills = 0
                     /\ bars = 4 /\ i = 4
                     /\ get_latest_bar_value(fill.symbol) = 12000
                     /\ fill.commission = 0
                     /\ cash_after = cash - 12000
                  \/ /\ fill.direction = "SELL"
                     /\ fills = 1
                     /\ bars = 6 /\ i = 6
                     /\ get_latest_bar_value(fill.symbol) = 8000
                     /\ fill.commission = 24
                     /\ cash_after = cash + sale_delta
    /\ pc' = "finished" => fills' = 2 /\ orders' = 2 /\ signals' = 2
    /\ (pc = "draining" /\ ~Empty(events)) =>
           /\ Front(events).type \in EventTypes
           /\ HasBar(symbol_list[1])

\* C20 as stated: the BUY lowers cash by the buy cost and the SELL lowers
\* it further, by the sale proceeds minus the 0.3% commission.
C20_CashFallsTwice == [][C20_Scenario(0 - (8000 - 24))]_vars

\* C20 amended: in the scenario exactly one BUY fill is dispatched, in the
\* drain of the bar where the close rises to 12, and exactly one SELL fill,
\* in the drain of the bar where it falls to 8; cash falls by the buy cost
\* (12) at the BUY and rises by the sale proceeds minus the 0.3% sell
\* commission (8 - 0.024) at the SELL.
C20_CashFallsThenRises == [][C20_Scenario(8000 - 24)]_vars

C20_Witness ==
    /\ pc = "finished"
    /\ fills = 2
    /\ heap[current_holdings]["commission"] = 24
    /\ heap[current_holdings]["cash"]
           = heap[all_holdings[1]]["cash"] - 12000 + 8000 - 24
    /\ Len(all_holdings) = 9
    /\ \A s \in Symbols : heap[current_positions][s] = 0

\* C21: for every finite calendar, the empty one included, the run
\* eventually reaches the end of _run_backtest with an empty queue and
\* without an error.
C21_Terminates == <>(pc = "finished" /\ Empty(events))

\* C22: every ORDER put by the dispatch of a SIGNAL carries
\* est_fill_cost = the signal's cur_price times the order's own quantity,
\* the EXIT orders of quantity |q| included.
C22_EstimatedCost ==
    [][Got("SIGNAL") =>
          LET sig == Front(events)
              put == events'[Len(events')]
          IN  put.type = "ORDER" =>
                  put.est_fill_cost = sig.cur_price * put.quantity]_vars

\* C23: a FillEvent built without a commission has commission 0 when it
\* is a BUY and 0.003 * basis when it is a SELL, the basis being
\* est_fill_cost on the venue "BT" and fill_cost on any other; a commission
\* passed to it is stored as it is.
C23_DefaultCommission ==
    ret.op = "FillEvent" =>
        LET fill == ret.value
            basis == IF fill.exchange = "BT" THEN fill.est_fill_cost
                     ELSE fill.fill_cost
        IN  /\ ret.raised = ""
            /\ (ret.N = -1 /\ fill.direction = "BUY") => fill.commission = 0
            /\ (ret.N = -1 /\ fill.direction = "SELL") =>
                   1000 * fill.commission = 3 * basis
            /\ ret.N # -1 => fill.commission = ret.N

C23_Witness ==
    /\ ret.op = "FillEvent"
    /\ ret.N = -1
    /\ ret.value.exchange = "BT"
    /\ ret.value.direction = "SELL"
    /\ ret.value.fill_cost # ret.value.est_fill_cost
    /\ ret.value.commission > 0

\* C24: create_drawdowns on an equity sequence of length L returns the
\* series drawdown[t] = hwm[t] - equity[t], with hwm[t] = max(hwm[t-1],
\* equity[t]) and duration[t] = 0 if drawdown[t] = 0 else duration[t-1] + 1
\* for 1 <= t < L, seeded with hwm[0] = 0, drawdown[0] = 0, duration[0] = 0,
\* together with the maximum of the drawdowns and of the durations; for
\* [1.0, 1.2, 0.9, 1.05] the drawdowns are [0, 0, 0.3, 0.15], their maximum
\* 0.3 and the maximum duration 2.  (Index t of the claim is t + 1 here.)
C24_Claimed(equity) ==
    LET hwm[t \in DOMAIN equity] ==
            IF t = 1 THEN Zero
            ELSE IF FracLess(hwm[t - 1], equity[t]) THEN equity[t]
            ELSE hwm[t - 1]
        drawdown == [t \in DOMAIN equity |->
                        IF t = 1 THEN Zero ELSE FracSub(hwm[t], equity[t])]
        duration[t \in DOMAIN equity] ==
            IF t = 1 THEN Zero
            ELSE IF drawdown[t] = Zero THEN Zero
            ELSE FracAdd(duration[t - 1], One)
        greatest(xs) ==
            CHOOSE x \in {xs[t] : t \in DOMAIN xs} :
                \A t \in DOMAIN xs : ~FracLess(x, xs[t])
    IN  [drawdown |-> drawdown, max_dd |-> greatest(drawdown),
         max_dd_duration |-> greatest(duration)]

C24_Recurrence ==
    ret.op = "create_drawdowns" =>
        /\ ret.raised = ""
        /\ ret.value.drawdown = C24_Claimed(ret.value.pnl).drawdown
        /\ ret.value.max_dd = C24_Claimed(ret.value.pnl).max_dd
        /\ ret.value.max_dd_duration
               = C24_Claimed(ret.value.pnl).max_dd_duration
        /\ ret.value.pnl = <<Frac(100, 100), Frac(120, 100), Frac(90, 100),
                             Frac(105, 100)>> =>
               /\ ret.value.drawdown
                      = <<Zero, Zero, Frac(30, 100), Frac(15, 100)>>
               /\ ret.value.max_dd = Frac(30, 100)
               /\ ret.value.max_dd_duration = Frac(2, 1)

\* C25: after _open_convert_csv_files the shared calendar is the sorted
\* union of the native timestamps of all symbols of the list: every
\* timestamp found in any symbol's file is a bar of every symbol, whatever
\* the number and the order of the symbols, and all symbols hold the same
\* number of bars.
C25_UnionCalendar ==
    ret.op = "_open_convert_csv_files" =>
        LET loaded == ret.value.symbol_data
            union == UNION {ret.value.csv[s] : s \in DOMAIN ret.value.csv}
        IN  /\ ret.raised = ""
            /\ \A s \in DOMAIN loaded :
                  /\ {loaded[s][k].datetime : k \in DOMAIN loaded[s]} = union
                  /\ Len(loaded[s]) = Cardinality(union)
                  /\ \A a, b \in DOMAIN loaded[s] :
                        a < b => loaded[s][a].datetime < loaded[s][b].datetime
            /\ \A s, t \in DOMAIN loaded : Len(loaded[s]) = Len(loaded[t])

\* C26: with unit sizing and one FILL per ORDER for the ordered quantity,
\* the position of every symbol is -1, 0 or 1 in every reachable state,
\* whatever number of signals the strategy puts per MARKET event, two
\* signals for the same symbol in one draining phase included.
C26_UnitPosition ==
    \A s \in Symbols : heap[current_positions][s] \in {-1, 0, 1}

\* no MARKET handler has put two signals for the same symbol
C26_OneSignalPerSymbol == ~Repeated

\* C26 (amended): with unit sizing and one FILL per ORDER for the ordered
\* quantity, the position of every symbol is -1, 0 or 1 in every reachable
\* state as long as the strategy has put at most one signal per symbol per
\* MARKET event.
C26_UnitPositionSingly == C26_OneSignalPerSymbol => C26_UnitPosition

C26_Witness ==
    /\ C26_OneSignalPerSymbol
    /\ \E s1, s2 \in OfType(Dispatched, "SIGNAL") :
           /\ s1 # s2
           /\ trace[s1].cause = trace[s2].cause
    /\ Cardinality(OfType(Dispatched, "FILL")) >= 2
    /\ \E s, t \in Symbols :
           heap[current_positions][s] = 1 /\ heap[current_positions][t] = -1

\* C27: the handler of a MARKET event runs calc_signals and update_timeindex
\* before any SIGNAL of that bar is dispatched: when the MARKET event of
\* bar N is dispatched nothing else is queued, the snapshot of bar N is
\* appended as a copy of the current positions and cash, and the signals
\* of bar N are put behind it, none dispatched; a SIGNAL of bar N is
\* dispatched with the snapshot of bar N already appended; a FILL caused by
\* a signal of bar N is applied while the snapshot of bar N is the last one
\* and leaves that snapshot as it was, so the fill shows first in the
\* snapshot appended for the next MARKET event.  (Bar N is the bar of the
\* N-th MARKET event.)
C27_SnapshotFirst ==
    [][/\ (Got("MARKET") /\ HasBar(symbol_list[1])) =>
              /\ Len(events) = 1
              /\ Len(all_positions) = i
              /\ Len(all_positions') = i + 1
              /\ Len(all_holdings') = i + 1
              /\ \A s \in Symbols :
                     heap'[all_positions'[i + 1]][s]
                         = heap[current_positions][s]
              /\ heap'[all_holdings'[i + 1]]["cash"]
                     = heap[current_holdings]["cash"]
              /\ heap'[all_holdings'[i + 1]]["commission"]
                     = heap[current_holdings]["commission"]
              /\ \A k \in DOMAIN events' :
                     /\ events'[k].type = "SIGNAL"
                     /\ trace'[events'[k].id].bar = i
                     /\ trace'[events'[k].id].pos = 0
       /\ Got("SIGNAL") =>
              /\ Len(all_positions) = trace[Front(events).id].bar + 1
              /\ Len(all_positions') = Len(all_positions)
       /\ Got("FILL") =>
              \A sig \in OfType(Causes(Front(events).id), "SIGNAL") :
                  LET N == trace[sig].bar
                  IN  /\ Len(all_positions) = N + 1
                      /\ Len(all_holdings) = N + 1
                      /\ Len(all_positions') = N + 1
                      /\ Len(all_holdings') = N + 1
                      /\ heap'[all_positions'[N + 1]]
                             = heap[all_positions[N + 1]]
                      /\ heap'[all_holdings'[N + 1]]
                             = heap[all_holdings[N + 1]]]_vars

C27_Witness ==
    /\ Len(all_positions) >= 3
    /\ \E f \in OfType(Dispatched, "FILL"), s \in Symbols :
           /\ trace[f].bar = 1
           /\ OfType(Causes(f), "SIGNAL") # {}
           /\ heap[all_positions[2]][s] = 0
           /\ heap[all_positions[3]][s] # 0
           /\ heap[all_holdings[2]]["cash"] = initial_cap
           /\ heap[all_holdings[3]]["cash"] # initial_cap

====
